---- MODULE Spec2Model ----
(***************************************************************************)
(* Pixel simulator (src/Pixel_sim.py): a toroidal grid of Empty / Alive /  *)
(* Tree cells evolved by a Tree rule and a Game-of-Life rule, with rule    *)
(* toggles and tree-parameter sliders.                                     *)
(*                                                                         *)
(* Random fields (np.random.random) are modelled by the set of cells whose *)
(* draw falls below the threshold: every subset of the cells the draw is   *)
(* applied to is a possible outcome.  Probabilities are kept as integers   *)
(* in slider units (value = units / SliderWidth * max_val).                *)
(***************************************************************************)
EXTENDS Integers, Sequences, FiniteSets, TLC

\* ------------------------------------------------------------------ bounds
\* Largest number of cells of a grid shape (height x width, both >= 2).
MaxCells == 9
\* Largest number of non-Empty cells of a sparse starting grid, and of Empty
\* cells of a dense one.
MaxFilled == 3
MaxVacant == 2
\* Largest number of Tree cells of a crowded starting grid.
MaxTrees == 2
\* Largest number of cells of a grid in the runs of the whole program.
MaxRunCells == 4
\* Cap on frame_count, which the program never bounds.
MaxFrames == 2
\* Longest side of the grids that are Alive all over (sides from 1).
MaxSide == 8
\* Longest side of the grids that hold a blinker (sides from 5).
MaxBlinkerSide == 6
\* Largest number of wheel notches in a row in an input script.
MaxNotches == 13

\* ------------------------------------------------------- program constants
Empty == 0
Alive == 1
Tree == 2
WIDTH == 1920
HEIGHT == 1080
\* self.max_zoom
MaxZoom == 8
\* range(min(100, len(valid_y))): candidate positions examined by the bootstrap
BootstrapChecks == 100
\* an np.uint8 holds 0 .. Uint8Modulus - 1
Uint8Modulus == 256
\* self.ui_panel_width, and the width of a slider's rect
UiPanelWidth == 300
SliderWidth == 200

VARIABLES
    width, height,      \* grid dimensions, fixed at construction
    grid,               \* self.grid: [Cells -> {Empty, Alive, Tree}]
    rules,              \* self.rules: enabled flag per rule name
    buttons,            \* 'active' of the two rule toggle buttons
    trees_config,       \* self.trees_config (chances in slider units)
    sliders,            \* slider['value'] per parameter
    zoom_level, pan_x, pan_y,   \* viewport
    ui_visible,         \* self.ui_visible
    frame_count,        \* self.frame_count
    events,             \* the input events run() has still to handle
    paused, panning, dragging_slider, last_mouse_pos,   \* locals of run()
    cast,               \* what the build stores for a float above 255 cast to uint8
    last                \* the locals of the last operation

\* the input queue and the locals of run()
loop == <<events, paused, panning, dragging_slider, last_mouse_pos>>

vars == <<width, height, grid, rules, buttons, trees_config, sliders,
          zoom_level, pan_x, pan_y, ui_visible, frame_count, cast, last, loop>>

Min(a, b) == IF a < b THEN a ELSE b
Max(a, b) == IF a > b THEN a ELSE b

\* ---------------------------------------------------------------- numbers
\* The viewport numbers (zoom_level, pan_x, pan_y) are Python floats; they are
\* kept as the exact fractions num / den (lowest terms, den > 0) the floats
\* stand for.  A float is off its fraction by a rounding error far below the
\* gap between two fractions of the sizes met here, so sums, quotients and
\* comparisons are those of the fractions; the error shows only where int()
\* truncates a float whose fraction is a whole number (GridCoordinates).
RECURSIVE GCD(_, _)
GCD(a, b) == IF b = 0 THEN a ELSE GCD(b, a % b)

Abs(n) == IF n < 0 THEN -n ELSE n

Frac(n, d) ==
    LET g == GCD(Abs(n), d) IN [num |-> n \div g, den |-> d \div g]

Whole(n) == [num |-> n, den |-> 1]

\* x + y, x - y, x * y, x / y (y > 0)
Plus(x, y) == Frac(x.num * y.den + y.num * x.den, x.den * y.den)
Minus(x, y) == Frac(x.num * y.den - y.num * x.den, x.den * y.den)
Times(x, y) ==
    LET g1 == GCD(Abs(x.num), y.den)
        g2 == GCD(Abs(y.num), x.den)
    IN  Frac((x.num \div g1) * (y.num \div g2), (x.den \div g2) * (y.den \div g1))
Over(x, y) == Times(x, [num |-> y.den, den |-> y.num])

Less(x, y) == x.num * y.den < y.num * x.den
\* min(x, y), max(x, y)
Least(x, y) == IF Less(y, x) THEN y ELSE x
Greatest(x, y) == IF Less(x, y) THEN y ELSE x

\* int(x): truncation towards zero
Trunc(x) == IF x.num >= 0 THEN x.num \div x.den ELSE -((-x.num) \div x.den)

\* self.min_zoom = 0.5, and the factor 1.2 of one wheel notch
MinZoom == [num |-> 1, den |-> 2]
ZoomFactor == [num |-> 6, den |-> 5]

States == {Empty, Alive, Tree}
Cells == (0 .. height - 1) \X (0 .. width - 1)
CellsOf(h, w) == (0 .. h - 1) \X (0 .. w - 1)

\* grid shapes of the model: every height x width with both sides >= 2
Shapes == {s \in (2 .. MaxCells) \X (2 .. MaxCells) : s[1] * s[2] <= MaxCells}

CellsIn(g, s) == {c \in DOMAIN g : g[c] = s}

\* ---------------------------------------------------------------- kernels
\* get_tree_kernel(radius): ones((2r+1, 2r+1)) with the centre set to 0; the
\* offsets (dy, dx) the kernel marks 1.  gol_kernel is the radius-1 kernel.
KernelOffsets(radius) ==
    {o \in (-radius .. radius) \X (-radius .. radius) : o # <<0, 0>>}

\* The float64 sum of a filter stored into the uint8 output array: exact up
\* to 255; above, the C cast is undefined and the build decides.
Uint8(n) ==
    IF n < Uint8Modulus THEN n
    ELSE IF cast = "wrap" THEN n % Uint8Modulus
    ELSE Uint8Modulus - 1

\* slip: mode='constant', cells past an edge count as 0
ExactCountConstant(mask, radius, c) ==
    Cardinality({o \in KernelOffsets(radius) :
        /\ c[1] - o[1] \in 0 .. height - 1
        /\ c[2] - o[2] \in 0 .. width - 1
        /\ <<c[1] - o[1], c[2] - o[2]>> \in mask})

\* Exact number of kernel offsets whose wrapped cell lies in mask.
ExactCount(mask, radius, c) ==
    Cardinality({o \in KernelOffsets(radius) :
        <<(c[1] - o[1]) % height, (c[2] - o[2]) % width>> \in mask})

\* convolve(mask.astype(np.uint8), kernel, mode='wrap') at cell c
Convolve(mask, radius, c) == Uint8(ExactCount(mask, radius, c))

\* ------------------------------------------------- apply_game_of_life_rule
HasWhitePixels(g) == \E c \in Cells : g[c] = Alive

\* grid[y:y+2, x:x+2] for a position with y < height-1 and x < width-1
Block(c) == {<<c[1], c[2]>>, <<c[1], c[2] + 1>>,
             <<c[1] + 1, c[2]>>, <<c[1] + 1, c[2] + 1>>}

BlockEmpty(g, c) == \A b \in Block(c) : g[b] = Empty

\* np.where(grid == 0) filtered by valid_mask: row-major order
ValidPositions(g) ==
    SelectSeq([p \in 1 .. height * width |-> <<(p - 1) \div width, (p - 1) % width>>],
              LAMBDA c : g[c] = Empty /\ c[2] < width - 1 /\ c[1] < height - 1)

\* how many of the valid positions the loop examines
ChecksDone(n) == Min(BootstrapChecks, n)

\* index into ValidPositions of the position the loop spawns at, 0 if none
SpawnIndex(g) ==
    LET valid == ValidPositions(g)
        hits == {i \in 1 .. ChecksDone(Len(valid)) : BlockEmpty(g, valid[i])}
    IN  IF hits = {} THEN 0 ELSE CHOOSE i \in hits : \A j \in hits : i <= j

\* slip: the slice grid[y:y+2, x:x+1]
SpawnedColumn(g) ==
    LET at == ValidPositions(g)[SpawnIndex(g)]
    IN  [c \in Cells |-> IF c \in {at, <<at[1] + 1, at[2]>>} THEN Alive ELSE g[c]]

Spawned(g) ==
    LET at == ValidPositions(g)[SpawnIndex(g)]
    IN  [c \in Cells |-> IF c \in Block(at) THEN Alive ELSE g[c]]

Neighbors(g, c) == Convolve(CellsIn(g, Alive), 1, c)

\* slip: survival with 2, 3 or 4 neighbours
GolSurviveCrowded(g) == {c \in Cells : g[c] = Alive /\ Neighbors(g, c) \in {2, 3, 4}}

GolSurvive(g) == {c \in Cells : g[c] = Alive /\ Neighbors(g, c) \in {2, 3}}
\* slip: birth with 2 or 3 neighbours
GolBornEasy(g) == {c \in Cells : g[c] = Empty /\ Neighbors(g, c) \in {2, 3}}

GolBorn(g) == {c \in Cells : g[c] = Empty /\ Neighbors(g, c) = 3}
TreesWithNeighbors(g) == {c \in Cells : g[c] = Tree /\ Neighbors(g, c) > 0}

ShouldBeWhite(g, trees_convert) == GolSurvive(g) \cup GolBorn(g) \cup trees_convert

\* slip: the trees are not copied into the scratch grid
UpdatedGridNoTrees(g, actually_white) ==
    [c \in Cells |-> IF c \in actually_white THEN Alive ELSE Empty]

\* _temp_grid.fill(0); _temp_grid[grid == 2] = 2; _temp_grid[actually_white] = 1
UpdatedGrid(g, actually_white) ==
    [c \in Cells |-> IF c \in actually_white THEN Alive
                     ELSE IF g[c] = Tree THEN Tree ELSE Empty]

NoLocals == [ran |-> FALSE, bootstrap |-> FALSE, trees_convert |-> {},
             should_be_white |-> {}, actually_white |-> {}]

\* Every outcome of apply_game_of_life_rule on grid g: the new grid and the
\* locals of the call.
GameOfLifeOutcomes(g) ==
    IF ~rules.game_of_life THEN {[grid |-> g, gol |-> NoLocals]}
    ELSE IF ~HasWhitePixels(g) /\ SpawnIndex(g) # 0
    THEN {[grid |-> Spawned(g), gol |-> [NoLocals EXCEPT !.ran = TRUE, !.bootstrap = TRUE]]}
    ELSE UNION {
           {[grid |-> UpdatedGrid(g, aw),
             gol |-> [ran |-> TRUE, bootstrap |-> FALSE, trees_convert |-> tc,
                      should_be_white |-> ShouldBeWhite(g, tc), actually_white |-> aw]] :
              aw \in SUBSET ShouldBeWhite(g, tc)} :
           tc \in SUBSET TreesWithNeighbors(g)}

\* -------------------------------------------------------- apply_trees_rule
\* grid[spontaneous_trees] = 2, grid[new_trees] = 2
WithTrees(g, cells) == [c \in Cells |-> IF c \in cells THEN Tree ELSE g[c]]

\* slip: random <= spontaneous_chance and no guard, which a draw of 0.0 meets
SpontaneousDrawsInclusive(g) == SUBSET CellsIn(g, Empty)

\* the draws of the spontaneous step: empty_cells & (random < spontaneous_chance)
SpontaneousDraws(g) ==
    IF trees_config.spontaneous_chance > 0 /\ CellsIn(g, Empty) # {}
    THEN SUBSET CellsIn(g, Empty) ELSE {{}}

NearbyTrees(g, c) == Convolve(CellsIn(g, Tree), trees_config.spread_radius, c)

\* slip: nearby_trees >= 0
CanSpreadAnywhere(g) ==
    IF trees_config.spread_chance > 0 /\ CellsIn(g, Empty) # {} /\ CellsIn(g, Tree) # {}
    THEN CellsIn(g, Empty) ELSE {}

\* can_spread = empty_cells & (nearby_trees > 0), on the grid after the
\* spontaneous step
CanSpread(g) ==
    IF trees_config.spread_chance > 0 /\ CellsIn(g, Empty) # {} /\ CellsIn(g, Tree) # {}
    THEN {c \in CellsIn(g, Empty) : NearbyTrees(g, c) > 0} ELSE {}

NoTreeLocals == [ran |-> FALSE, spontaneous_trees |-> {}, can_spread |-> {},
                 new_trees |-> {}]

TreesOutcomes(g) ==
    IF ~rules.trees THEN {[grid |-> g, trees |-> NoTreeLocals]}
    ELSE UNION {
           {[grid |-> WithTrees(WithTrees(g, st), nt),
             trees |-> [ran |-> TRUE, spontaneous_trees |-> st,
                        can_spread |-> CanSpread(WithTrees(g, st)), new_trees |-> nt]] :
              nt \in SUBSET CanSpread(WithTrees(g, st))} :
           st \in SpontaneousDraws(g)}

\* ------------------------------------------------------------- operations
\* The record kept of an operation: its name and argument, the grid it
\* started from (pre), the grid between the two rule steps of a tick (mid),
\* and the locals of the two rule steps.
Op(name, arg, pre, mid, t, o) ==
    [op |-> name, arg |-> arg, pre |-> pre, mid |-> mid, trees |-> t, gol |-> o]

\* slip: the two rule calls in the other order
UpdateGridLifeFirst ==
    /\ frame_count < MaxFrames
    /\ frame_count' = frame_count + 1
    /\ \E o \in GameOfLifeOutcomes(grid) :
          \E t \in TreesOutcomes(o.grid) :
             /\ grid' = t.grid
             /\ last' = Op("tick", "", grid, o.grid, t.trees, o.gol)
    /\ UNCHANGED <<width, height, rules, buttons, trees_config, sliders,
                   zoom_level, pan_x, pan_y, ui_visible, cast,
                   loop>>

\* update_grid: one tick
UpdateGrid ==
    /\ frame_count < MaxFrames
    /\ frame_count' = frame_count + 1
    /\ \E t \in TreesOutcomes(grid) :
          \E o \in GameOfLifeOutcomes(t.grid) :
             /\ grid' = o.grid
             /\ last' = Op("tick", "", grid, t.grid, t.trees, o.gol)
    /\ UNCHANGED <<width, height, rules, buttons, trees_config, sliders,
                   zoom_level, pan_x, pan_y, ui_visible, cast,
                   loop>>

\* slip: every rule is flipped
ToggledRulesAll(rule_name) ==
    IF rule_name \in DOMAIN rules
    THEN [r \in DOMAIN rules |-> ~rules[r]]
    ELSE rules

\* toggle_rule(rule_name)
ToggledRules(rule_name) ==
    IF rule_name \in DOMAIN rules
    THEN [rules EXCEPT ![rule_name] = ~rules[rule_name]]
    ELSE rules

\* the button whose action is f'toggle_{rule_name}'
ToggleButton(rule_name) ==
    IF rule_name = "game_of_life" THEN "toggle_game_of_life"
    ELSE IF rule_name = "trees" THEN "toggle_trees"
    ELSE "none"

ToggledButtons(rule_name) ==
    IF rule_name \in DOMAIN rules /\ ToggleButton(rule_name) \in DOMAIN buttons
    THEN [buttons EXCEPT ![ToggleButton(rule_name)] = ToggledRules(rule_name)[rule_name]]
    ELSE buttons

RuleNames == {"game_of_life", "trees", "fire"}

ToggleRule(rule_name) ==
    /\ rules' = ToggledRules(rule_name)
    /\ buttons' = ToggledButtons(rule_name)
    /\ last' = Op("toggle", rule_name, grid, grid, NoTreeLocals, NoLocals)
    /\ UNCHANGED <<width, height, grid, trees_config, sliders, zoom_level,
                   pan_x, pan_y, ui_visible, frame_count, cast,
                   loop>>

\* setup_ui: the sliders in list order, with their rects
SliderParams == <<"spread_chance", "spontaneous_chance", "spread_radius">>

SliderRect(i) ==
    [x |-> WIDTH - UiPanelWidth + 20, y |-> 80 + 60 * i, w |-> SliderWidth, h |-> 20]

\* pygame.Rect.collidepoint
CollidePoint(rect, pos) ==
    /\ rect.x <= pos[1] /\ pos[1] < rect.x + rect.w
    /\ rect.y <= pos[2] /\ pos[2] < rect.y + rect.h

\* index of the first slider whose rect holds pos, 0 if none
SliderAt(pos) ==
    LET hits == {i \in 1 .. Len(SliderParams) : CollidePoint(SliderRect(i), pos)}
    IN  IF hits = {} THEN 0 ELSE CHOOSE i \in hits : \A j \in hits : i <= j

\* percentage = max(0, min(1, relative_x / width)), in units of 1 / SliderWidth
Percentage(i, pos) == Max(0, Min(SliderWidth, pos[1] - SliderRect(i).x))

\* new_value: min_val + percentage * (max_val - min_val); the chances in
\* units of max_val / SliderWidth, the radius int(1 + percentage * 9)
NewValue(i, pos) ==
    IF SliderParams[i] = "spread_radius"
    THEN 1 + (Percentage(i, pos) * (10 - 1)) \div SliderWidth
    ELSE Percentage(i, pos)

\* cursor positions tried on the sliders: both ends of each, and a miss
SliderPositions ==
    {<<1640, 150>>, <<1640, 210>>, <<1839, 270>>, <<100, 100>>}

\* handle_slider_drag(pos)
HandleSliderDrag(pos) ==
    /\ IF SliderAt(pos) # 0
       THEN /\ sliders' = [sliders EXCEPT ![SliderParams[SliderAt(pos)]] =
                               NewValue(SliderAt(pos), pos)]
            /\ trees_config' = [trees_config EXCEPT ![SliderParams[SliderAt(pos)]] =
                               NewValue(SliderAt(pos), pos)]
       ELSE UNCHANGED <<sliders, trees_config>>
    /\ last' = Op("slider", "", grid, grid, NoTreeLocals, NoLocals)
    /\ UNCHANGED <<width, height, grid, rules, buttons, zoom_level, pan_x, pan_y,
                   ui_visible, frame_count, cast,
                   loop>>

\* ------------------------------------------------------------ setup_ui
Rect(x, y, w, h) == [x |-> x, y |-> y, w |-> w, h |-> h]

\* self.buttons in list order
ButtonList ==
    << [action |-> "toggle_game_of_life", rect |-> Rect(WIDTH - UiPanelWidth + 20, 20, 200, 30)],
       [action |-> "toggle_trees", rect |-> Rect(WIDTH - UiPanelWidth + 20, 60, 200, 30)],
       [action |-> "randomize", rect |-> Rect(WIDTH - UiPanelWidth + 20, 320, 90, 30)],
       [action |-> "clear", rect |-> Rect(WIDTH - UiPanelWidth + 120, 320, 90, 30)],
       [action |-> "toggle_ui", rect |-> Rect(WIDTH - 30, 10, 20, 20)] >>

\* show_button of run() and draw_ui()
ShowButton == Rect(WIDTH - 30, 10, 20, 20)

\* the action of the first button whose rect holds pos, "none" if there is none
ButtonAt(pos) ==
    LET hits == {i \in 1 .. Len(ButtonList) : CollidePoint(ButtonList[i].rect, pos)}
    IN  IF hits = {} THEN "none"
        ELSE ButtonList[CHOOSE i \in hits : \A j \in hits : i <= j].action

\* the rule a toggle button names
RuleOfButton(action) ==
    IF action = "toggle_game_of_life" THEN "game_of_life" ELSE "trees"

\* slip: only the Alive cells are reset
ClearedAlive(g) == [c \in Cells |-> IF g[c] = Alive THEN Empty ELSE g[c]]

\* self.grid.fill(0)
Cleared(g) == [c \in Cells |-> Empty]

\* ------------------------------------------------------------- viewport
\* sim_width = WIDTH - (self.ui_panel_width if self.ui_visible else 0)
SimWidth(visible) == WIDTH - (IF visible THEN UiPanelWidth ELSE 0)

\* screen / zoom + pan is computed without rounding: zoom is 0.5, 1 or 8, a
\* power of two, and pan is 0
Unrounded(zoom, pan) == zoom \in {MinZoom, Whole(1), Whole(MaxZoom)} /\ pan = Whole(0)

\* int((screen / zoom) + pan) on one axis: every value the float expression
\* can truncate to.  Where the fraction is a whole number n >= 1 and the
\* float was rounded, the float is n or just below n, and int() gives n or
\* n - 1.
GridCoordinates(zoom, pan, screen) ==
    LET exact == Plus(Over(Whole(screen), zoom), pan)
    IN  IF exact.den = 1 /\ exact.num >= 1 /\ ~Unrounded(zoom, pan)
        THEN {exact.num - 1, exact.num}
        ELSE {Trunc(exact)}

\* screen_to_grid with the given zoom and pan: every (grid_x, grid_y) it can
\* return
ScreenToGrid(zoom, px, py, pos) ==
    GridCoordinates(zoom, px, pos[1]) \X GridCoordinates(zoom, py, pos[2])

\* max_pan = max(0, dimension - window / zoom)
MaxPan(dimension, window, zoom) ==
    Greatest(Whole(0), Minus(Whole(dimension), Over(Whole(window), zoom)))

\* slip: the lower clamp is left out
ClampedAbove(pan, max_pan) == Least(max_pan, pan)

\* max(0, min(max_pan, pan))
Clamped(pan, max_pan) == Greatest(Whole(0), Least(max_pan, pan))

\* slip: no clamp to max_zoom and min_zoom
ZoomedFreely(zoom, button) ==
    IF button = 4 THEN Times(zoom, ZoomFactor)
    ELSE IF button = 5 THEN Over(zoom, ZoomFactor)
    ELSE zoom

\* the zoom level after a wheel notch: button 4 zooms in, 5 out
\* (min(max_zoom, zoom * 1.2) and max(min_zoom, zoom / 1.2), the bound being
\* compared with before the product is formed)
Zoomed(zoom, button) ==
    IF button = 4
    THEN IF Less(Over(Whole(MaxZoom), ZoomFactor), zoom) THEN Whole(MaxZoom)
         ELSE Times(zoom, ZoomFactor)
    ELSE IF button = 5
    THEN IF Less(zoom, Times(MinZoom, ZoomFactor)) THEN MinZoom
         ELSE Over(zoom, ZoomFactor)
    ELSE zoom

\* the cursor is over the shown panel
OverPanel(visible, pos) == visible /\ pos[1] > WIDTH - UiPanelWidth

\* slip: new_grid is taken before the zoom level changes
ZoomedViewEarly(button, pos) ==
    IF OverPanel(ui_visible, pos)
    THEN {[zoom |-> zoom_level, pan_x |-> pan_x, pan_y |-> pan_y, anchored |-> FALSE,
           old |-> <<0, 0>>, new |-> <<0, 0>>]}
    ELSE LET zoom == Zoomed(zoom_level, button)
         IN  {[zoom |-> zoom,
               pan_x |-> Clamped(Plus(pan_x, Whole(old[1] - new[1])),
                                 MaxPan(width, SimWidth(ui_visible), zoom)),
               pan_y |-> Clamped(Plus(pan_y, Whole(old[2] - new[2])),
                                 MaxPan(height, HEIGHT, zoom)),
               anchored |-> TRUE, old |-> old, new |-> new] :
                 old \in ScreenToGrid(zoom_level, pan_x, pan_y, pos),
                 new \in ScreenToGrid(zoom_level, pan_x, pan_y, pos)}

\* handle_zoom: every viewport (zoom, pan_x, pan_y) a wheel notch with the
\* cursor at pos can leave, with the locals old_grid and new_grid of the call
\* (anchored: the call did not return at the panel)
ZoomedView(button, pos) ==
    IF OverPanel(ui_visible, pos)
    THEN {[zoom |-> zoom_level, pan_x |-> pan_x, pan_y |-> pan_y, anchored |-> FALSE,
           old |-> <<0, 0>>, new |-> <<0, 0>>]}
    ELSE LET zoom == Zoomed(zoom_level, button)
         IN  {[zoom |-> zoom,
               pan_x |-> Clamped(Plus(pan_x, Whole(old[1] - new[1])),
                                 MaxPan(width, SimWidth(ui_visible), zoom)),
               pan_y |-> Clamped(Plus(pan_y, Whole(old[2] - new[2])),
                                 MaxPan(height, HEIGHT, zoom)),
               anchored |-> TRUE, old |-> old, new |-> new] :
                 old \in ScreenToGrid(zoom_level, pan_x, pan_y, pos),
                 new \in ScreenToGrid(zoom, pan_x, pan_y, pos)}

\* the pan <<pan_x, pan_y>> after a mouse motion to pos while panning
PannedView(pos) ==
    LET dx == Over(Whole(pos[1] - last_mouse_pos[1]), zoom_level)
        dy == Over(Whole(pos[2] - last_mouse_pos[2]), zoom_level)
    IN  << Clamped(Minus(pan_x, dx), MaxPan(width, SimWidth(ui_visible), zoom_level)),
           Clamped(Minus(pan_y, dy), MaxPan(height, HEIGHT, zoom_level)) >>

\* ---------------------------------------------------------- handle_mouse
\* the indices a numpy slice start:stop selects on an axis of n cells
SliceRange(start, stop, n) ==
    LET from == IF start < 0 THEN Max(0, start + n) ELSE Min(start, n)
        to == IF stop < 0 THEN Max(0, stop + n) ELSE Min(stop, n)
    IN  from .. (to - 1)

\* brush_size = max(1, int(3 / self.zoom_level))
BrushSize(zoom) == Max(1, Trunc(Over(Whole(3), zoom)))

\* slip: the whole brush_size on each side of the cell
BrushSpanWide(at, brush_size, n) ==
    SliceRange(Max(0, at - brush_size), Min(n, at + brush_size + 1), n)

\* start = max(0, at - brush_size//2), end = min(n, at + brush_size//2 + 1)
BrushSpan(at, brush_size, n) ==
    SliceRange(Max(0, at - brush_size \div 2), Min(n, at + brush_size \div 2 + 1), n)

\* slip: += cell_type, which adds to the state of a cell
BrushedAdded(g, rows, cols, cell_type) ==
    [c \in Cells |-> IF c[1] \in rows /\ c[2] \in cols THEN g[c] + cell_type ELSE g[c]]

\* self.grid[y_start:y_end, x_start:x_end] = cell_type
Brushed(g, rows, cols, cell_type) ==
    [c \in Cells |-> IF c[1] \in rows /\ c[2] \in cols THEN cell_type ELSE g[c]]

\* the grid after the brush at cell at = (grid_x, grid_y)
BrushedAt(g, at, pressed, shift) ==
    LET cols == BrushSpan(at[1], BrushSize(zoom_level), width)
        rows == BrushSpan(at[2], BrushSize(zoom_level), height)
    IN  IF 1 \in pressed THEN Brushed(g, rows, cols, IF shift THEN Tree ELSE Alive)
        ELSE IF 3 \in pressed THEN Brushed(g, rows, cols, Empty)
        ELSE g

\* handle_mouse: every grid it can leave, with the mouse buttons in pressed
\* held (1 left, 2 middle, 3 right), the cursor at pos and Shift held or not
HandleMouseGrid(g, visible, pressed, pos, shift) ==
    IF pressed = {} \/ OverPanel(visible, pos) THEN {g}
    ELSE {BrushedAt(g, at, pressed, shift) :
             at \in ScreenToGrid(zoom_level, pan_x, pan_y, pos)}

\* slip: only the cells that are not Trees are drawn anew
RandomizeOutcomesSparing(density) ==
    {g \in [Cells -> States] :
        \A c \in Cells :
           IF grid[c] = Tree THEN g[c] = Tree
           ELSE /\ g[c] \in {Empty, Alive}
                /\ density = 0 => g[c] = Empty
                /\ density = 100 => g[c] = Alive}

\* np.random.choice([0, 1], size, p=[1 - density, density]); density in percent
RandomizeOutcomes(density) ==
    {g \in [Cells -> {Empty, Alive}] :
        /\ density = 0 => \A c \in Cells : g[c] = Empty
        /\ density = 100 => \A c \in Cells : g[c] = Alive}

\* randomize_grid(density=0.1), as run() and the Randomize button call it
RandomizeGrid ==
    /\ \E g \in RandomizeOutcomes(10) :
          /\ grid' = g
          /\ last' = Op("randomize", "", g, g, NoTreeLocals, NoLocals)
    /\ UNCHANGED <<width, height, rules, buttons, trees_config, sliders, zoom_level,
                   pan_x, pan_y, ui_visible, frame_count, cast,
                   loop>>

\* the densities randomize_grid is called with: none, that of run() and of
\* the Randomize button, the default of the parameter, and all
Densities == {0, 10, 30, 100}

\* randomize_grid(density); the record keeps the density as arg, the grid
\* before the call as pre and the grid after it as mid
RandomizeGridDensity ==
    /\ \E density \in Densities :
          \E g \in RandomizeOutcomes(density) :
             /\ grid' = g
             /\ last' = Op("randomize", density, grid, g, NoTreeLocals, NoLocals)
    /\ UNCHANGED <<width, height, rules, buttons, trees_config, sliders, zoom_level,
                   pan_x, pan_y, ui_visible, frame_count, cast,
                   loop>>

\* ------------------------------------------------------------------ run
\* The input of run(): the events of pygame.event.get() in the order the loop
\* handles them, the polls of the end of a frame ("frame": the buttons
\* get_pressed() reports, the cursor and the Shift key) being queued with
\* them.  An event's pos is also what pygame.mouse.get_pos() returns while
\* the event is handled.
KeyEvent(key) == [type |-> "key", key |-> key]
DownEvent(button, pos) == [type |-> "down", button |-> button, pos |-> pos]
UpEvent(button) == [type |-> "up", button |-> button]
MotionEvent(pos) == [type |-> "motion", pos |-> pos]
FrameEnd(pressed, pos, shift) ==
    [type |-> "frame", pressed |-> pressed, pos |-> pos, shift |-> shift]
\* the end of a frame with no mouse button held
QuietFrame == FrameEnd({}, <<0, 0>>, FALSE)

Event == Head(events)
Handling(type) == events # <<>> /\ Head(events).type = type

\* the record of an event handled: no rule step ran
Handled(name, g) == Op(name, Event, g, g, NoTreeLocals, NoLocals)

\* KEYDOWN K_SPACE
KeySpace ==
    /\ Handling("key") /\ Event.key = "space"
    /\ paused' = ~paused
    /\ events' = Tail(events)
    /\ last' = Handled("space", grid)
    /\ UNCHANGED <<width, height, grid, rules, buttons, trees_config, sliders,
                   zoom_level, pan_x, pan_y, ui_visible, frame_count, cast,
                   panning, dragging_slider, last_mouse_pos>>

\* KEYDOWN K_HOME
KeyHome ==
    /\ Handling("key") /\ Event.key = "home"
    /\ zoom_level' = Whole(1)
    /\ pan_x' = Whole(0)
    /\ pan_y' = Whole(0)
    /\ events' = Tail(events)
    /\ last' = Handled("home", grid)
    /\ UNCHANGED <<width, height, grid, rules, buttons, trees_config, sliders,
                   ui_visible, frame_count, cast, paused, panning, dragging_slider,
                   last_mouse_pos>>

\* MOUSEBUTTONDOWN, button 1: handle_button_click, else handle_slider_drag
\* (the record keeps the grid before the click as pre, the grid after as mid)
LeftDown ==
    /\ Handling("down") /\ Event.button = 1
    /\ LET action == ButtonAt(Event.pos)
           toggles == action \in {"toggle_game_of_life", "toggle_trees"}
           slider == IF action = "none" THEN SliderAt(Event.pos) ELSE 0
       IN  /\ rules' = IF toggles THEN ToggledRules(RuleOfButton(action)) ELSE rules
           /\ buttons' = IF toggles THEN ToggledButtons(RuleOfButton(action)) ELSE buttons
           /\ grid' \in IF action = "randomize" THEN RandomizeOutcomes(10)
                       ELSE IF action = "clear" THEN {Cleared(grid)}
                       ELSE {grid}
           /\ ui_visible' = IF action = "toggle_ui" THEN ~ui_visible ELSE ui_visible
           /\ sliders' = IF slider # 0
                         THEN [sliders EXCEPT ![SliderParams[slider]] =
                                  NewValue(slider, Event.pos)]
                         ELSE sliders
           /\ trees_config' = IF slider # 0
                              THEN [trees_config EXCEPT ![SliderParams[slider]] =
                                       NewValue(slider, Event.pos)]
                              ELSE trees_config
           /\ dragging_slider' = IF slider # 0 THEN TRUE ELSE dragging_slider
           /\ last' = Op(IF action # "none" THEN action
                         ELSE IF slider # 0 THEN "slider" ELSE "click",
                         Event, grid, grid', NoTreeLocals, NoLocals)
    /\ events' = Tail(events)
    /\ UNCHANGED <<width, height, zoom_level, pan_x, pan_y, frame_count, cast,
                   paused, panning, last_mouse_pos>>

\* MOUSEBUTTONDOWN, button 2
MiddleDown ==
    /\ Handling("down") /\ Event.button = 2
    /\ IF ~ui_visible \/ Event.pos[1] < WIDTH - UiPanelWidth
       THEN panning' = TRUE /\ last_mouse_pos' = Event.pos
       ELSE UNCHANGED <<panning, last_mouse_pos>>
    /\ events' = Tail(events)
    /\ last' = Handled("grab", grid)
    /\ UNCHANGED <<width, height, grid, rules, buttons, trees_config, sliders,
                   zoom_level, pan_x, pan_y, ui_visible, frame_count, cast, paused,
                   dragging_slider>>

\* MOUSEBUTTONDOWN, button 4 or 5: handle_zoom
HandleZoom ==
    /\ Handling("down") /\ Event.button \in {4, 5}
    /\ \E view \in ZoomedView(Event.button, Event.pos) :
          /\ zoom_level' = view.zoom
          /\ pan_x' = view.pan_x
          /\ pan_y' = view.pan_y
          /\ last' = Op("zoom", [type |-> "down", button |-> Event.button,
                                 pos |-> Event.pos, anchored |-> view.anchored,
                                 old |-> view.old, new |-> view.new],
                        grid, grid, NoTreeLocals, NoLocals)
    /\ events' = Tail(events)
    /\ UNCHANGED <<width, height, grid, rules, buttons, trees_config, sliders,
                   ui_visible, frame_count, cast, paused, panning, dragging_slider,
                   last_mouse_pos>>

\* MOUSEBUTTONUP
MouseButtonUp ==
    /\ Handling("up")
    /\ dragging_slider' = IF Event.button = 1 THEN FALSE ELSE dragging_slider
    /\ panning' = IF Event.button = 2 THEN FALSE ELSE panning
    /\ events' = Tail(events)
    /\ last' = Handled("release", grid)
    /\ UNCHANGED <<width, height, grid, rules, buttons, trees_config, sliders,
                   zoom_level, pan_x, pan_y, ui_visible, frame_count, cast, paused,
                   last_mouse_pos>>

\* MOUSEMOTION: drags the slider, else pans
MouseMotion ==
    /\ Handling("motion")
    /\ LET slider == IF dragging_slider THEN SliderAt(Event.pos) ELSE 0
           pans == ~dragging_slider /\ panning
       IN  /\ sliders' = IF slider # 0
                         THEN [sliders EXCEPT ![SliderParams[slider]] =
                                  NewValue(slider, Event.pos)]
                         ELSE sliders
           /\ trees_config' = IF slider # 0
                              THEN [trees_config EXCEPT ![SliderParams[slider]] =
                                       NewValue(slider, Event.pos)]
                              ELSE trees_config
           /\ pan_x' = IF pans THEN PannedView(Event.pos)[1] ELSE pan_x
           /\ pan_y' = IF pans THEN PannedView(Event.pos)[2] ELSE pan_y
           /\ last_mouse_pos' = IF pans THEN Event.pos ELSE last_mouse_pos
           /\ last' = Handled(IF dragging_slider THEN "drag"
                              ELSE IF panning THEN "pan" ELSE "motion", grid)
    /\ events' = Tail(events)
    /\ UNCHANGED <<width, height, grid, rules, buttons, zoom_level, ui_visible,
                   frame_count, cast, paused, panning, dragging_slider>>

\* the panel is visible after the show-button poll of the end of a frame
ShownAfter(visible, pressed, pos) ==
    IF ~visible /\ 1 \in pressed /\ CollidePoint(ShowButton, pos) THEN TRUE
    ELSE visible

\* slip: the tick runs whether paused or not
TickRunsAlways(is_paused) == TRUE

\* if not paused: self.update_grid()
TickRuns(is_paused) == ~is_paused

\* The end of a frame: the show-button poll, handle_mouse, and update_grid
\* unless paused.
EndFrame ==
    /\ Handling("frame")
    /\ LET visible == ShownAfter(ui_visible, Event.pressed, Event.pos)
       IN  \E brushed \in HandleMouseGrid(grid, visible, Event.pressed, Event.pos,
                                          Event.shift) :
           /\ ui_visible' = visible
           /\ IF TickRuns(paused)
              THEN /\ frame_count < MaxFrames
                   /\ frame_count' = frame_count + 1
                   /\ \E t \in TreesOutcomes(brushed) :
                         \E o \in GameOfLifeOutcomes(t.grid) :
                            /\ grid' = o.grid
                            /\ last' = Op("frame", Event, brushed, t.grid, t.trees, o.gol)
              ELSE /\ frame_count' = frame_count
                   /\ grid' = brushed
                   /\ last' = Op("frame", Event, brushed, brushed, NoTreeLocals, NoLocals)
    /\ events' = Tail(events)
    /\ UNCHANGED <<width, height, rules, buttons, trees_config, sliders, zoom_level,
                   pan_x, pan_y, cast, paused, panning, dragging_slider,
                   last_mouse_pos>>

\* ------------------------------------------------------------------- Init
\* __init__: the state after construction of a height x width simulator
Constructed(h, w) ==
    /\ height = h
    /\ width = w
    /\ rules = [game_of_life |-> TRUE, trees |-> FALSE]
    /\ buttons = [toggle_game_of_life |-> TRUE, toggle_trees |-> FALSE]
    /\ trees_config = [spread_chance |-> 40, spontaneous_chance |-> 20,
                       spread_radius |-> 3]
    /\ sliders = [spread_chance |-> 40, spontaneous_chance |-> 20,
                  spread_radius |-> 3]
    /\ zoom_level = Whole(1)
    /\ pan_x = Whole(0)
    /\ pan_y = Whole(0)
    /\ ui_visible = TRUE
    /\ frame_count = 0
    /\ events = <<>>
    /\ paused = FALSE
    /\ panning = FALSE
    /\ dragging_slider = FALSE
    /\ last_mouse_pos = <<0, 0>>

ZeroGrid(h, w) == [c \in CellsOf(h, w) |-> Empty]

NoOp(g) == Op("init", "", g, g, NoTreeLocals, NoLocals)

\* grids with at most MaxFilled cells that are not Empty
SparseGrids(h, w) ==
    {g \in [CellsOf(h, w) -> States] :
        Cardinality({c \in CellsOf(h, w) : g[c] # Empty}) <= MaxFilled}

\* grids of Alive cells with at most MaxVacant Empty and at most MaxTrees Tree
\* cells
CrowdedGrids(h, w) ==
    {g \in [CellsOf(h, w) -> States] :
        /\ Cardinality({c \in CellsOf(h, w) : g[c] = Empty}) <= MaxVacant
        /\ Cardinality({c \in CellsOf(h, w) : g[c] = Tree}) <= MaxTrees}

\* grids of Trees with at least one and at most MaxVacant + 1 Empty cells
ForestGrids(h, w) ==
    {g \in [CellsOf(h, w) -> {Empty, Tree}] :
        Cardinality({c \in CellsOf(h, w) : g[c] = Empty}) \in 1 .. MaxVacant + 1}

\* a row of Empty cells above a row that starts with k Trees
TwoRows(w, k) ==
    [c \in CellsOf(2, w) |-> IF c[1] = 1 /\ c[2] < k THEN Tree ELSE Empty]

\* The state every focused specification starts from, but for the grid, the
\* rules, the tree parameters and the frames run so far.
Running(h, w, g, r, config, frames) ==
    /\ height = h
    /\ width = w
    /\ grid = g
    /\ rules = r
    /\ buttons = [toggle_game_of_life |-> r.game_of_life, toggle_trees |-> r.trees]
    /\ trees_config = config
    /\ sliders = config
    /\ zoom_level = Whole(1) /\ pan_x = Whole(0) /\ pan_y = Whole(0)
    /\ ui_visible = TRUE
    /\ frame_count = frames
    /\ events = <<>>
    /\ paused = FALSE /\ panning = FALSE /\ dragging_slider = FALSE
    /\ last_mouse_pos = <<0, 0>>
    /\ last = NoOp(g)

DefaultConfig == [spread_chance |-> 40, spontaneous_chance |-> 20, spread_radius |-> 3]

\* Default rules (Game of Life on, Trees off) on any sparse grid after
\* MaxFrames - 1 frames; then one tick.
InitGoL ==
    \E s \in Shapes :
       \E g \in SparseGrids(s[1], s[2]) :
          /\ Running(s[1], s[2], g, [game_of_life |-> TRUE, trees |-> FALSE],
                     DefaultConfig, MaxFrames - 1)
          /\ cast \in {"wrap"}

SpecGoL == InitGoL /\ [][UpdateGrid]_vars

\* Bootstrap scan: default rules on a grid two rows high and wider than the
\* scan is long, the lower row starting with k Trees; then one tick.
InitBootstrap ==
    \E k \in 0 .. BootstrapChecks + 1 :
       /\ Running(2, BootstrapChecks + 3, TwoRows(BootstrapChecks + 3, k),
                  [game_of_life |-> TRUE, trees |-> FALSE], DefaultConfig,
                  MaxFrames - 1)
       /\ cast \in {"wrap"}

SpecBootstrap == InitBootstrap /\ [][UpdateGrid]_vars

\* Tree rule with both chances at 0 (the sliders' left ends) and every radius
\* the radius slider can set, from frame 0, on sparse and crowded grids.
InitIdle ==
    \E s \in Shapes :
       \E g \in SparseGrids(s[1], s[2]) \cup CrowdedGrids(s[1], s[2]) :
          \E radius \in 1 .. 9 :
             /\ Running(s[1], s[2], g, [game_of_life |-> FALSE, trees |-> TRUE],
                        [spread_chance |-> 0, spontaneous_chance |-> 0,
                         spread_radius |-> radius], 0)
             /\ cast \in {"wrap", "saturate"}

SpecIdle == InitIdle /\ [][UpdateGrid]_vars

\* Neighbour counts past 255: the Tree rule with spread radius 8 or 9 on
\* grids of Trees, under either outcome of the out-of-range cast.
CountShapes == {<<2, 2>>, <<3, 4>>}

InitCount ==
    \E s \in CountShapes :
       \E g \in ForestGrids(s[1], s[2]) :
          \E radius \in {8, 9} :
             /\ Running(s[1], s[2], g, [game_of_life |-> FALSE, trees |-> TRUE],
                        [spread_chance |-> 40, spontaneous_chance |-> 0,
                         spread_radius |-> radius], MaxFrames - 1)
             /\ cast \in {"wrap", "saturate"}

SpecCount == InitCount /\ [][UpdateGrid]_vars

\* The program from construction, on the smallest grids.
Init ==
    \E s \in {t \in Shapes : t[1] * t[2] <= MaxRunCells} :
       /\ Constructed(s[1], s[2])
       /\ grid = ZeroGrid(s[1], s[2])
       /\ cast \in {"wrap", "saturate"}
       /\ last = NoOp(grid)

Next ==
    \/ RandomizeGrid
    \/ UpdateGrid
    \/ \E rule_name \in RuleNames : ToggleRule(rule_name)
    \/ \E pos \in SliderPositions : HandleSliderDrag(pos)

Spec == Init /\ [][Next]_vars

\* tree parameters the sliders can set: a chance of 0 or the default, the
\* smallest and the default radius
TreeConfigs ==
    [spread_chance : {0, 40}, spontaneous_chance : {0, 20}, spread_radius : {1, 3}]

\* Only the Tree rule on, on any crowded grid; then one tick.
InitTrees ==
    \E s \in Shapes :
       \E g \in CrowdedGrids(s[1], s[2]) :
          \E config \in TreeConfigs :
             /\ Running(s[1], s[2], g, [game_of_life |-> FALSE, trees |-> TRUE], config,
                        MaxFrames - 1)
             /\ cast \in {"wrap"}

SpecTrees == InitTrees /\ [][UpdateGrid]_vars

\* Default rules on the grid that is Alive all over, for every height and
\* width from 1 to MaxSide; then one tick.
AllAliveGrid(h, w) == [c \in CellsOf(h, w) |-> Alive]

InitAllAlive ==
    \E h \in 1 .. MaxSide, w \in 1 .. MaxSide :
       /\ Running(h, w, AllAliveGrid(h, w), [game_of_life |-> TRUE, trees |-> FALSE],
                  DefaultConfig, MaxFrames - 1)
       /\ cast \in {"wrap"}

SpecAllAlive == InitAllAlive /\ [][UpdateGrid]_vars

\* the three cells of a line centred on c, along its row or its column, on
\* the h x w torus
LineCells(h, w, c, horizontal) ==
    IF horizontal THEN {<<c[1], (c[2] + d) % w>> : d \in {-1, 0, 1}}
    ELSE {<<(c[1] + d) % h, c[2]>> : d \in {-1, 0, 1}}

BlinkerGrid(h, w, c, horizontal) ==
    [d \in CellsOf(h, w) |-> IF d \in LineCells(h, w, c, horizontal) THEN Alive ELSE Empty]

\* Default rules from frame 0 on a grid of 5 x 5 or more that holds one
\* blinker, at any place and in either direction; then the ticks.
InitBlinker ==
    \E h \in 5 .. MaxBlinkerSide, w \in 5 .. MaxBlinkerSide :
       \E c \in CellsOf(h, w), horizontal \in BOOLEAN :
          /\ Running(h, w, BlinkerGrid(h, w, c, horizontal),
                     [game_of_life |-> TRUE, trees |-> FALSE], DefaultConfig, 0)
          /\ cast \in {"wrap"}

SpecBlinker == InitBlinker /\ [][UpdateGrid]_vars

\* ---------------------------------------------------------------- run()
\* run() from its start on a height x width simulator: the state of
\* __init__, the grid g that randomize_grid(density=0.1) drew, and the input
\* script still to come.
RunOf(h, w, g, script) ==
    /\ height = h
    /\ width = w
    /\ grid = g
    /\ rules = [game_of_life |-> TRUE, trees |-> FALSE]
    /\ buttons = [toggle_game_of_life |-> TRUE, toggle_trees |-> FALSE]
    /\ trees_config = DefaultConfig
    /\ sliders = DefaultConfig
    /\ zoom_level = Whole(1) /\ pan_x = Whole(0) /\ pan_y = Whole(0)
    /\ ui_visible = TRUE
    /\ frame_count = 0
    /\ events = script
    /\ paused = FALSE /\ panning = FALSE /\ dragging_slider = FALSE
    /\ last_mouse_pos = <<0, 0>>
    /\ cast = "wrap"
    /\ last = NoOp(g)

\* n wheel notches in a row with the cursor at pos
Notches(n, button, pos) == [i \in 1 .. n |-> DownEvent(button, pos)]

\* a draw of randomize_grid: Alive where row + column is even
CheckerGrid(h, w) ==
    [c \in CellsOf(h, w) |-> IF (c[1] + c[2]) % 2 = 0 THEN Alive ELSE Empty]

\* the polls of a frame with a mouse button held and the cursor at pos:
\* draw, draw Trees, erase, left and right together, middle only
BrushFrames(pos) ==
    {FrameEnd({1}, pos, FALSE), FrameEnd({1}, pos, TRUE), FrameEnd({3}, pos, FALSE),
     FrameEnd({1, 3}, pos, FALSE), FrameEnd({2}, pos, FALSE)}

\* Brush edits while paused on a 3 x 4 grid under every zoom level of up to
\* MaxNotches wheel notches in or out, the cursor on, next to and far off the
\* grid's image.
SmallBrushScripts ==
    {<<KeyEvent("space")>> \o Notches(n, button, <<0, 0>>) \o <<frame>> :
        n \in 0 .. MaxNotches, button \in {4, 5},
        frame \in UNION {BrushFrames(<<x, y>>) : x \in {0, 3, 4, 9, 31, 40},
                                                  y \in {0, 2, 3, 25}}}

\* Brush edits while paused on a strip as long as the window is wide: after
\* no zoom, one notch out or one notch in about a cursor on the right, then
\* a drag of the view by 0, 1 or 1000 pixels, the cursor at the ends and
\* inside the simulation area.
WideBrushScripts ==
    {<<KeyEvent("space")>> \o zoom
        \o <<DownEvent(2, <<1000, 0>>), MotionEvent(<<1000 - by, 0>>)>> \o <<frame>> :
        zoom \in {<<>>, Notches(1, 5, <<1600, 0>>), Notches(1, 4, <<1600, 0>>)},
        by \in {0, 1, 1000},
        frame \in UNION {BrushFrames(<<x, 0>>) : x \in {0, 1, 810, 1600, 1619, 1700}}}

\* the same on a strip as high as the window
TallBrushScripts ==
    {<<KeyEvent("space")>> \o zoom
        \o <<DownEvent(2, <<0, 600>>), MotionEvent(<<0, 600 - by>>)>> \o <<frame>> :
        zoom \in {<<>>, Notches(1, 5, <<0, 1000>>), Notches(1, 4, <<0, 1000>>)},
        by \in {0, 1, 600},
        frame \in UNION {BrushFrames(<<0, y>>) : y \in {0, 1, 540, 1000, 1079}}}

InitBrush ==
    \/ \E g \in {ZeroGrid(3, 4), CheckerGrid(3, 4)}, script \in SmallBrushScripts :
          RunOf(3, 4, g, script)
    \/ \E script \in WideBrushScripts : RunOf(1, WIDTH, CheckerGrid(1, WIDTH), script)
    \/ \E script \in TallBrushScripts : RunOf(HEIGHT, 1, CheckerGrid(HEIGHT, 1), script)

SpecBrush ==
    InitBrush /\ [][KeySpace \/ HandleZoom \/ MiddleDown \/ MouseMotion \/ EndFrame]_vars

\* run(): every event the loop handles, and the end of a frame
RunNext ==
    \/ KeySpace
    \/ KeyHome
    \/ LeftDown
    \/ MiddleDown
    \/ HandleZoom
    \/ MouseButtonUp
    \/ MouseMotion
    \/ EndFrame

\* what the user may do between two frames: nothing, a click on each button
\* of the panel, a press and drag on the first slider, a wheel notch, a notch
\* and the Home key, a drag of the view
InputsOnce ==
    {<<>>,
     <<DownEvent(1, <<1650, 30>>)>>,
     <<DownEvent(1, <<1650, 70>>)>>,
     <<DownEvent(1, <<1650, 330>>)>>,
     <<DownEvent(1, <<1750, 330>>)>>,
     <<DownEvent(1, <<1700, 150>>), MotionEvent(<<1800, 150>>), UpEvent(1)>>,
     <<DownEvent(4, <<0, 0>>)>>,
     <<DownEvent(5, <<0, 0>>), KeyEvent("home")>>,
     <<DownEvent(2, <<1, 1>>), MotionEvent(<<0, 0>>), UpEvent(2)>>}

\* the polls of a frame with the cursor on the grid's first cell
FramesOnce ==
    {QuietFrame, FrameEnd({1}, <<0, 0>>, FALSE), FrameEnd({1}, <<0, 0>>, TRUE),
     FrameEnd({3}, <<0, 0>>, FALSE)}

\* Two frames of run() on a 2 x 2 grid: Space or not, one input, a frame,
\* Space or not, a second frame.
PauseScripts ==
    {pre \o input \o <<frame>> \o post \o <<QuietFrame>> :
        pre \in {<<>>, <<KeyEvent("space")>>}, input \in InputsOnce,
        frame \in FramesOnce, post \in {<<>>, <<KeyEvent("space")>>}}

\* a paused frame on a strip as long as the window is wide, after a drag of
\* the view by 100 pixels
PanScripts ==
    {<<KeyEvent("space"), DownEvent(2, <<1000, 0>>), MotionEvent(<<900, 0>>),
       UpEvent(2), frame>> : frame \in FramesOnce}

InitPause ==
    \/ \E g \in {ZeroGrid(2, 2), CheckerGrid(2, 2)}, script \in PauseScripts :
          RunOf(2, 2, g, script)
    \/ \E script \in PanScripts : RunOf(1, WIDTH, CheckerGrid(1, WIDTH), script)

SpecPause == InitPause /\ [][RunNext]_vars

\* a press of the middle button at from, a motion to to, and the release
Drag(from, to) == <<DownEvent(2, from), MotionEvent(to), UpEvent(2)>>

\* the X button of the panel, and the place of the show button
HideClick == <<DownEvent(1, <<1895, 15>>)>>
ShowFrame == <<FrameEnd({1}, <<1895, 15>>, FALSE)>>

\* what the user may do to the view of a strip as long as the window is
\* wide: a wheel notch in or out with the cursor on the right, the left, the
\* middle or over the panel, a drag of the view to the left, to the right or
\* by 7 pixels, the Home key, a click on the X, the left button held on the
\* show button
WideViewSteps ==
    {Notches(1, 4, <<1600, 0>>), Notches(1, 5, <<1600, 0>>), Notches(1, 4, <<0, 0>>),
     Notches(1, 5, <<1000, 0>>), Notches(1, 4, <<1700, 0>>),
     Drag(<<1000, 0>>, <<0, 0>>), Drag(<<1000, 0>>, <<1500, 0>>),
     Drag(<<1000, 0>>, <<993, 0>>),
     <<KeyEvent("home")>>, HideClick, ShowFrame}

\* the same on a strip as high as the window
TallViewSteps ==
    {Notches(1, 4, <<0, 1000>>), Notches(1, 5, <<0, 1000>>), Notches(1, 4, <<0, 0>>),
     Notches(1, 5, <<0, 540>>),
     Drag(<<0, 600>>, <<0, 0>>), Drag(<<0, 600>>, <<0, 900>>), Drag(<<0, 600>>, <<0, 593>>),
     <<KeyEvent("home")>>, HideClick, ShowFrame}

\* three steps in a row while paused
ViewScripts(steps) ==
    {<<KeyEvent("space")>> \o a \o b \o c : a \in steps, b \in steps, c \in steps}

\* up to MaxNotches wheel notches one way, up to 3 back, then nothing, the
\* Home key, or the Home key and one more notch
LongZoomScripts ==
    {Notches(n, way[1], pos) \o Notches(m, way[2], pos)
        \o SubSeq(<<KeyEvent("home"), DownEvent(way[1], pos)>>, 1, more) :
        n \in 0 .. MaxNotches, m \in 0 .. 3, way \in {<<4, 5>>, <<5, 4>>},
        pos \in {<<0, 0>>, <<30, 20>>}, more \in 0 .. 2}

\* The view of run(): the two strips that stand for the two axes of the
\* WIDTH x HEIGHT simulator run() is started on, and a 3 x 4 grid under long
\* runs of wheel notches.
InitView ==
    \/ \E script \in ViewScripts(WideViewSteps) :
          RunOf(1, WIDTH, ZeroGrid(1, WIDTH), script)
    \/ \E script \in ViewScripts(TallViewSteps) :
          RunOf(HEIGHT, 1, ZeroGrid(HEIGHT, 1), script)
    \/ \E script \in LongZoomScripts : RunOf(3, 4, ZeroGrid(3, 4), script)

SpecView == InitView /\ [][RunNext]_vars

\* cursor columns about a slider: left of it, its first pixel, inside, its
\* last pixel, the first pixel right of it, further right
SliderColumns == {1500, 1639, 1640, 1740, 1839, 1840, 1900}

\* A press on slider i, two motions along its row or to the row of the
\* first slider, and the release.
SliderScripts ==
    {<<DownEvent(1, <<at, SliderRect(i).y + 10>>), MotionEvent(<<x1, SliderRect(i).y + 10>>),
       MotionEvent(<<x2, SliderRect(j).y + 10>>), UpEvent(1)>> :
        i \in 1 .. Len(SliderParams), j \in 1 .. Len(SliderParams),
        at \in {1640, 1740, 1839}, x1 \in SliderColumns, x2 \in SliderColumns}

InitSlider ==
    \E script \in {t \in SliderScripts : t[3].pos[2] \in {t[1].pos[2], SliderRect(1).y + 10}} :
       RunOf(2, 2, ZeroGrid(2, 2), script)

SpecSlider == InitSlider /\ [][LeftDown \/ MouseMotion \/ MouseButtonUp]_vars

\* Two frames of run() on grids of up to four cells, among them a single
\* cell, a row and a column, from an empty and from a chequered draw.
GridShapes == {<<1, 1>>, <<1, 3>>, <<3, 1>>, <<2, 2>>}

InitGrid ==
    \E shape \in GridShapes, script \in PauseScripts :
       \E g \in {ZeroGrid(shape[1], shape[2]), CheckerGrid(shape[1], shape[2])} :
          RunOf(shape[1], shape[2], g, script)

SpecGrid == InitGrid /\ [][RunNext]_vars

\* a click on the Clear button
ClearClick == <<DownEvent(1, <<1750, 330>>)>>

\* A frame that may brush (with a tick unless Space came first), Clear, then
\* Clear again at once or after one more frame.
ClearScripts ==
    {pre \o <<frame>> \o ClearClick \o mid \o ClearClick :
        pre \in {<<>>, <<KeyEvent("space")>>}, frame \in FramesOnce,
        mid \in {<<>>} \cup {<<again>> : again \in FramesOnce}}

InitClear ==
    \E shape \in GridShapes, script \in ClearScripts :
       \E g \in {ZeroGrid(shape[1], shape[2]), CheckerGrid(shape[1], shape[2])} :
          RunOf(shape[1], shape[2], g, script)

SpecClear == InitClear /\ [][KeySpace \/ LeftDown \/ EndFrame]_vars

\* randomize_grid on every grid of the shapes of up to four cells, Trees
\* among its cells or not.
InitRandomize ==
    \E shape \in GridShapes :
       \E g \in [CellsOf(shape[1], shape[2]) -> States] :
          /\ Running(shape[1], shape[2], g, [game_of_life |-> TRUE, trees |-> FALSE],
                     DefaultConfig, 0)
          /\ cast \in {"wrap"}

SpecRandomize == InitRandomize /\ [][RandomizeGridDensity]_vars

\* where the left button goes down once the 'X' button was clicked: on each
\* button and a slider of the panel, on the 'X' button, and off the panel
PanelPositions ==
    {<<1650, 30>>, <<1650, 70>>, <<1650, 330>>, <<1750, 330>>, <<1700, 150>>,
     <<1895, 15>>, <<100, 100>>}

\* A click on the 'X' button, the end of that frame with the left button
\* released or still held on the button, then a press at one of the
\* positions, a move of ten pixels, the end of the frame and the release.
PanelScripts ==
    {HideClick \o <<FrameEnd(held, <<1895, 15>>, FALSE), DownEvent(1, pos),
                    MotionEvent(<<pos[1] + 10, pos[2]>>),
                    FrameEnd({1}, <<pos[1] + 10, pos[2]>>, FALSE), UpEvent(1)>> :
        held \in {{}, {1}}, pos \in PanelPositions}

InitPanel ==
    \E shape \in GridShapes, script \in PanelScripts :
       \E g \in {ZeroGrid(shape[1], shape[2]), CheckerGrid(shape[1], shape[2])} :
          RunOf(shape[1], shape[2], g, script)

SpecPanel == InitPanel /\ [][LeftDown \/ MouseMotion \/ MouseButtonUp \/ EndFrame]_vars

\* ----------------------------------------------------------------- claims
\* Number of Alive cells among the eight cells around c on the torus:
\* sum of (g[(row + dy) mod H][(col + dx) mod W] = Alive) over the offsets.
AliveAround(g, c) ==
    Cardinality({o \in ({-1, 0, 1} \X {-1, 0, 1}) \ {<<0, 0>>} :
        g[<<(c[1] + o[1]) % height, (c[2] + o[2]) % width>>] = Alive})

\* the 2x2 square of cells whose top-left corner is c
Square(c) == {<<c[1] + i, c[2] + j>> : i \in {0, 1}, j \in {0, 1}}

\* top-left corners of the 2x2 squares that fit in the grid without wrapping
Corners == {c \in Cells : c[1] + 1 < height /\ c[2] + 1 < width}

AllEmpty(g) == \A c \in Cells : g[c] = Empty

\* the last operation was a tick whose Game-of-Life step ran its rule body
LifeBodyRan == last.op = "tick" /\ last.gol.ran /\ ~last.gol.bootstrap

\* C1: from an all-Empty grid with Game of Life on and Trees off, one tick
\* leaves exactly four Alive cells forming one 2x2 block, all others Empty.
C1_BootstrapFromEmpty ==
    (last.op = "tick" /\ rules.game_of_life /\ ~rules.trees /\ AllEmpty(last.pre))
    => /\ Cardinality(CellsIn(grid, Alive)) = 4
       /\ \E c \in Corners : \A d \in Cells :
             grid[d] = IF d \in Square(c) THEN Alive ELSE Empty

C1_Witness ==
    /\ last.op = "tick" /\ rules.game_of_life /\ ~rules.trees /\ AllEmpty(last.pre)
    /\ Cardinality(CellsIn(grid, Alive)) = 4
    /\ Cardinality(CellsIn(grid, Empty)) > 0

\* C3 (as claimed): in a non-bootstrap Game-of-Life step every should-be-alive
\* candidate whose failure-gate draw fails is Empty after the step, also a
\* Tree cell selected for conversion.
C3_FailedCandidateEmpty ==
    LifeBodyRan =>
       \A c \in last.gol.should_be_white \ last.gol.actually_white : grid[c] = Empty

\* C4: after a non-bootstrap Game-of-Life step a cell is Alive only if at the
\* start of the step it was Alive with 2 or 3 Alive neighbours, Empty with
\* exactly 3, or Tree with at least 1.
C4_AliveOnlyByRule ==
    LifeBodyRan =>
       \A c \in Cells : grid[c] = Alive =>
          \/ last.mid[c] = Alive /\ AliveAround(last.mid, c) \in {2, 3}
          \/ last.mid[c] = Empty /\ AliveAround(last.mid, c) = 3
          \/ last.mid[c] = Tree /\ AliveAround(last.mid, c) >= 1

C4_Witness ==
    /\ LifeBodyRan
    /\ \E c \in Cells : /\ last.mid[c] = Alive /\ AliveAround(last.mid, c) > 3
                        /\ grid[c] = Empty
    /\ \E c \in Cells : last.mid[c] = Alive /\ grid[c] = Alive

\* C5: after a non-bootstrap Game-of-Life step every Tree not selected for
\* conversion is still a Tree, every Empty or Alive cell that is not Alive
\* afterwards is Empty, and no Empty or Alive cell has become a Tree.
C5_TreesKeptOthersEmpty ==
    LifeBodyRan =>
       \A c \in Cells :
          /\ (last.mid[c] = Tree /\ c \notin last.gol.trees_convert) => grid[c] = Tree
          /\ (last.mid[c] # Tree /\ grid[c] # Alive) => grid[c] = Empty
          /\ last.mid[c] # Tree => grid[c] # Tree

C5_Witness ==
    /\ LifeBodyRan
    /\ \E c \in Cells : /\ last.mid[c] = Tree /\ AliveAround(last.mid, c) > 0
                        /\ c \notin last.gol.trees_convert /\ grid[c] = Tree
    /\ \E c \in Cells : last.mid[c] = Alive /\ grid[c] = Empty

\* the first corner, in row-major order, of an all-Empty 2x2 square of g
RowMajorBefore(a, b) == a[1] < b[1] \/ (a[1] = b[1] /\ a[2] <= b[2])

EmptyCorners(g) == {c \in Corners : \A d \in Square(c) : g[d] = Empty}

FirstEmptyCorner(g) ==
    CHOOSE c \in EmptyCorners(g) : \A d \in EmptyCorners(g) : RowMajorBefore(c, d)

\* C2 (as claimed): whenever the Game-of-Life step runs on a grid with no
\* Alive cell that holds an all-Empty 2x2 block, it sets the first such block
\* in row-major order Alive, changes nothing else and skips the rule body.
C2_BootstrapExhaustive ==
    (last.op = "tick" /\ last.gol.ran /\ CellsIn(last.mid, Alive) = {}
       /\ EmptyCorners(last.mid) # {})
    => LET first == Square(FirstEmptyCorner(last.mid))
       IN  /\ last.gol.bootstrap
           /\ \A d \in Cells : grid[d] = IF d \in first THEN Alive ELSE last.mid[d]

\* C6: in a tick with both rules on the Tree rule has run to completion on
\* the tick's starting grid before the Game-of-Life rule reads the grid: the
\* Tree rule changed only cells that were Empty when the tick started, no
\* Tree appears after the Game-of-Life step has read the grid, and the cells
\* Alive after the tick follow the Game-of-Life rule applied to the grid that
\* holds this tick's new Trees.
C6_TreesBeforeLife ==
    (last.op = "tick" /\ last.trees.ran /\ last.gol.ran)
    => /\ \A c \in Cells : last.mid[c] # last.pre[c] =>
             last.pre[c] = Empty /\ last.mid[c] = Tree
       /\ \A c \in Cells : grid[c] = Tree => last.mid[c] = Tree
       /\ ~last.gol.bootstrap => \A c \in Cells : grid[c] = Alive =>
             \/ last.mid[c] = Alive /\ AliveAround(last.mid, c) \in {2, 3}
             \/ last.mid[c] = Empty /\ AliveAround(last.mid, c) = 3
             \/ last.mid[c] = Tree /\ AliveAround(last.mid, c) >= 1
       /\ last.gol.bootstrap => CellsIn(last.mid, Alive) = {}

\* a cell made a Tree by the Tree rule and Alive by the Game-of-Life rule of
\* the same tick
C6_Witness ==
    /\ last.op = "tick" /\ last.trees.ran /\ last.gol.ran
    /\ \E c \in Cells : last.pre[c] = Empty /\ last.mid[c] = Tree /\ grid[c] = Alive

\* the button of a rule
ButtonOf(rule_name) ==
    CASE rule_name = "game_of_life" -> "toggle_game_of_life"
      [] rule_name = "trees" -> "toggle_trees"
      [] OTHER -> "no button"

\* C7: toggle_rule flips only the flag of the named rule and its button
\* state; grid, tree parameters and viewport are unchanged, an unknown name
\* changes nothing, and the step of a disabled rule leaves the grid unchanged
\* in every tick.
C7_ToggleOnlyFlips ==
    /\ [][last'.op = "toggle" =>
            /\ UNCHANGED <<width, height, grid, trees_config, sliders, zoom_level,
                           pan_x, pan_y, ui_visible, frame_count>>
            /\ DOMAIN rules' = DOMAIN rules
            /\ \A r \in DOMAIN rules :
                  rules'[r] = IF r = last'.arg THEN ~rules[r] ELSE rules[r]
            /\ DOMAIN buttons' = DOMAIN buttons
            /\ \A b \in DOMAIN buttons :
                  buttons'[b] = IF b = ButtonOf(last'.arg) THEN rules'[last'.arg]
                                ELSE buttons[b]]_vars
    /\ [](last.op = "tick" =>
            /\ ~rules.trees => last.mid = last.pre
            /\ ~rules.game_of_life => grid = last.mid)

C7_Witness ==
    /\ last.op = "toggle" /\ last.arg = "trees" /\ ~rules.trees
    /\ ~AllEmpty(grid)
    /\ trees_config # DefaultConfig
    /\ frame_count > 0

\* C8: with spread_chance = 0 and spontaneous_chance = 0 the Tree rule step
\* of a tick leaves every cell unchanged, for every grid, radius and tick.
C8_ZeroChancesNoChange ==
    (last.op = "tick" /\ last.trees.ran /\ trees_config.spread_chance = 0
       /\ trees_config.spontaneous_chance = 0)
    => last.mid = last.pre

\* the second tick in a row on a grid with Empty cells next to Trees
C8_Witness ==
    /\ last.op = "tick" /\ last.trees.ran /\ frame_count >= 2
    /\ trees_config.spread_chance = 0 /\ trees_config.spontaneous_chance = 0
    /\ \E c \in Cells : last.pre[c] = Empty /\ AliveAround(last.pre, c) = 0
    /\ CellsIn(last.pre, Tree) # {} /\ CellsIn(last.pre, Empty) # {}
    /\ last.mid = last.pre

\* distance between two coordinates on a circle of n cells
CircleDistance(a, b, n) == Min((a - b) % n, (b - a) % n)

\* d lies within Chebyshev distance r of c on the torus
WithinRadius(c, d, r) ==
    /\ CircleDistance(c[1], d[1], height) <= r
    /\ CircleDistance(c[2], d[2], width) <= r

\* the grid after the spontaneous step of the last tick
AfterSpontaneous ==
    [c \in Cells |-> IF c \in last.trees.spontaneous_trees THEN Tree ELSE last.pre[c]]

\* C9: a Tree rule step only turns Empty cells into Trees, and a cell the
\* spread step turned into a Tree was Empty after the spontaneous step and
\* had a Tree within Chebyshev distance spread_radius on the torus, this
\* tick's spontaneous Trees counting as sources.
C9_SpreadNeedsSource ==
    (last.op = "tick" /\ last.trees.ran)
    => /\ \A c \in Cells : last.mid[c] # last.pre[c] =>
             last.pre[c] = Empty /\ last.mid[c] = Tree
       /\ \A c \in last.trees.spontaneous_trees : last.pre[c] = Empty
       /\ \A c \in last.trees.new_trees :
             /\ AfterSpontaneous[c] = Empty
             /\ \E d \in Cells : /\ AfterSpontaneous[d] = Tree
                                 /\ WithinRadius(c, d, trees_config.spread_radius)

\* a spread Tree whose only source is a spontaneous Tree of the same tick
C9_Witness ==
    /\ last.op = "tick" /\ last.trees.ran
    /\ \E c \in last.trees.new_trees :
          \A d \in Cells : (last.pre[d] = Tree) =>
             ~WithinRadius(c, d, trees_config.spread_radius)

\* number of kernel offsets of radius r around c that hold a Tree in g
TreesAround(g, c, r) ==
    Cardinality({o \in ((-r) .. r) \X ((-r) .. r) :
        /\ o # <<0, 0>>
        /\ g[<<(c[1] + o[1]) % height, (c[2] + o[2]) % width>>] = Tree})

\* C10 (as claimed): the neighbour count of every cell is the exact number of
\* matching cells over the kernel offsets, never wrapped or truncated by its
\* 8-bit type, so every Empty cell with a Tree within spread_radius is
\* eligible for spread.
C10_CountExact ==
    (last.op = "tick" /\ last.trees.ran /\ trees_config.spread_chance > 0)
    => \A c \in Cells :
          /\ NearbyTrees(AfterSpontaneous, c)
                = TreesAround(AfterSpontaneous, c, trees_config.spread_radius)
          /\ (AfterSpontaneous[c] = Empty
                /\ TreesAround(AfterSpontaneous, c, trees_config.spread_radius) > 0)
             => c \in last.trees.can_spread

\* C11: on a grid whose cells are all Alive the Alive-neighbour count of the
\* radius-1 kernel is 8 at every cell, edge and corner cells included, for
\* every grid size, sides of 1 and 2 included; so no cell survives the step.
C11_AllAliveCountEight ==
    (LifeBodyRan /\ \A c \in Cells : last.mid[c] = Alive)
    => /\ \A c \in Cells : Neighbors(last.mid, c) = 8
       /\ last.gol.should_be_white = {}
       /\ AllEmpty(grid)

\* the step has run on an all-Alive grid with a side shorter than the kernel
C11_Witness ==
    /\ LifeBodyRan
    /\ \A c \in Cells : last.mid[c] = Alive
    /\ height = 1 /\ width = 2
    /\ AllEmpty(grid)

\* g is the blinker centred on c in the given direction
IsBlinker(g, c, horizontal) == g = BlinkerGrid(height, width, c, horizontal)

\* a tick record whose Game-of-Life step ran its rule body with no
\* failure-gate draw failing, the Tree rule being off
CleanLifeTick(l) ==
    /\ l.op = "tick" /\ ~l.trees.ran
    /\ l.gol.ran /\ ~l.gol.bootstrap
    /\ l.gol.actually_white = l.gol.should_be_white

\* C12: with Game of Life on, the Tree rule off and no failure-gate draw
\* failing, a tick turns a blinker into the blinker of the other direction on
\* the same centre, and two such ticks in a row return the starting grid,
\* which one tick does not.
C12_BlinkerPeriodTwo ==
    /\ [][CleanLifeTick(last') =>
            \A c \in Cells, horizontal \in BOOLEAN :
               IsBlinker(grid, c, horizontal) => IsBlinker(grid', c, ~horizontal)]_vars
    /\ [][(CleanLifeTick(last) /\ CleanLifeTick(last')
             /\ \E c \in Cells, horizontal \in BOOLEAN : IsBlinker(last.pre, c, horizontal))
            => grid' = last.pre /\ grid # last.pre]_vars

\* two ticks without a failed draw have run from a blinker that lies across
\* the edge of the grid
C12_Witness ==
    /\ frame_count = 2 /\ CleanLifeTick(last)
    /\ IsBlinker(grid, <<0, 0>>, TRUE)
    /\ IsBlinker(last.pre, <<0, 0>>, FALSE)

\* the grid cell under the cursor of the event in hand, and half the brush
\* the cells screen_to_grid can map the cursor of the frame in hand to
CellUnderCursor == ScreenToGrid(zoom_level, pan_x, pan_y, Event.pos)
HalfBrush == BrushSize(zoom_level) \div 2

\* the cells the handle_mouse call of the frame in hand changed
BrushChanged == {c \in Cells : last'.pre[c] # grid[c]}

C14_PauseSuspendsOnlyTick ==
    [][/\ paused => frame_count' = frame_count
       /\ (paused /\ last'.op = "frame") =>
             /\ ~last'.trees.ran /\ ~last'.gol.ran
             /\ grid' \in HandleMouseGrid(grid, ui_visible', Event.pressed, Event.pos,
                                          Event.shift)
       /\ (paused /\ grid' # grid) =>
             \/ last'.op \in {"randomize", "clear"}
             \/ last'.op = "frame" /\ Event.pressed \cap {1, 3} # {}
       /\ (paused /\ last'.op = "toggle_game_of_life") =>
             rules' = [rules EXCEPT !.game_of_life = ~rules.game_of_life]
       /\ (paused /\ last'.op = "toggle_trees") =>
             rules' = [rules EXCEPT !.trees = ~rules.trees]
       /\ (paused /\ last'.op \in {"slider", "drag"} /\ SliderAt(Event.pos) # 0) =>
             trees_config'[SliderParams[SliderAt(Event.pos)]] =
                NewValue(SliderAt(Event.pos), Event.pos)
       /\ (paused /\ last'.op = "zoom" /\ ~OverPanel(ui_visible, Event.pos)) =>
             zoom_level' = Zoomed(zoom_level, Event.button)
       /\ (paused /\ last'.op = "pan") =>
             /\ pan_x' = PannedView(Event.pos)[1]
             /\ pan_y' = PannedView(Event.pos)[2]
       /\ (~paused /\ last'.op = "frame") =>
             /\ frame_count' = frame_count + 1
             /\ last'.pre \in HandleMouseGrid(grid, ui_visible', Event.pressed,
                                              Event.pos, Event.shift)
             /\ last'.trees.ran = rules.trees
             /\ last'.gol.ran = rules.game_of_life
             /\ \E t \in TreesOutcomes(last'.pre) :
                   \E o \in GameOfLifeOutcomes(t.grid) : grid' = o.grid]_vars

\* paused, the slider dragged and the grid painted Alive all over; then
\* unpaused, and the one tick of the second frame emptied it
C14_Witness ==
    /\ ~paused /\ events = <<>> /\ frame_count = 1
    /\ last.op = "frame"
    /\ last.pre = AllAliveGrid(2, 2)
    /\ last.gol.ran
    /\ trees_config.spread_chance = 160
    /\ \A c \in Cells : grid[c] = Empty

\* the width of the window the view shows, in cells
WindowWidth == Over(Whole(SimWidth(ui_visible)), zoom_level)
WindowHeight == Over(Whole(HEIGHT), zoom_level)

\* C15 as stated: the visible window stays inside the grid on both axes,
\* 0 <= pan_x and pan_x + sim_width / zoom <= width, 0 <= pan_y and
\* pan_y + HEIGHT / zoom <= height; each axis is read on the strip that has
\* the simulator's side on it.
C15_WindowInsideGrid ==
    /\ width = WIDTH =>
          /\ ~Less(pan_x, Whole(0))
          /\ ~Less(Whole(width), Plus(pan_x, WindowWidth))
    /\ height = HEIGHT =>
          /\ ~Less(pan_y, Whole(0))
          /\ ~Less(Whole(height), Plus(pan_y, WindowHeight))

\* C15, amended: after any zoom, pan, reset and show or hide of the panel,
\* 0 <= pan_x <= max(0, width - (WIDTH - ui_panel_width) / zoom) and
\* 0 <= pan_y <= max(0, height - HEIGHT / zoom); so the window is inside
\* the grid on an axis when the grid is at least as long as the window there
\* and, on the x axis, the panel is shown.
C15_PanWithinLimits ==
    /\ ~Less(pan_x, Whole(0))
    /\ ~Less(MaxPan(width, SimWidth(TRUE), zoom_level), pan_x)
    /\ ~Less(pan_y, Whole(0))
    /\ ~Less(MaxPan(height, HEIGHT, zoom_level), pan_y)
    /\ (ui_visible /\ ~Less(Whole(width), WindowWidth)) =>
          ~Less(Whole(width), Plus(pan_x, WindowWidth))
    /\ ~Less(Whole(height), WindowHeight) =>
          ~Less(Whole(height), Plus(pan_y, WindowHeight))

\* the panel was hidden over a view dragged to its limit: the pan is within
\* its limits and the window, now the whole screen wide, ends past the grid
C15_Witness ==
    /\ last.op = "toggle_ui" /\ ~ui_visible
    /\ width = WIDTH
    /\ zoom_level = Whole(1)
    /\ pan_x = Whole(UiPanelWidth)
    /\ Less(Whole(width), Plus(pan_x, WindowWidth))

\* the cells screen_to_grid can map the cursor of the last wheel notch to
CellAfterZoom == ScreenToGrid(zoom_level, pan_x, pan_y, last.arg.pos)

\* C16 as stated: after a wheel notch with the cursor in the simulation
\* area, the grid cell under the cursor is the cell that was under it before.
C16_ZoomKeepsCell ==
    [][(last'.op = "zoom" /\ last'.arg.anchored) =>
          ScreenToGrid(zoom_level', pan_x', pan_y', last'.arg.pos) = {last'.arg.old}]_vars

\* C16, amended: on each axis on which the clamp leaves the re-anchored pan
\* (pan + old - new) as it is, the cell under the cursor after a wheel notch
\* with the cursor in the simulation area is at most one cell from the cell
\* that was under it before.
C16_ZoomKeepsCellUnclamped ==
    [][(last'.op = "zoom" /\ last'.arg.anchored) =>
          \A after \in ScreenToGrid(zoom_level', pan_x', pan_y', last'.arg.pos) :
             /\ pan_x' = Plus(pan_x, Whole(last'.arg.old[1] - last'.arg.new[1])) =>
                   Abs(after[1] - last'.arg.old[1]) <= 1
             /\ pan_y' = Plus(pan_y, Whole(last'.arg.old[2] - last'.arg.new[2])) =>
                   Abs(after[2] - last'.arg.old[2]) <= 1]_vars

\* a notch in from the start with the cursor at 1600: the pan moves by
\* 1600 - 1333 cells, inside its limits, and the cursor is over cell 1600 as
\* before
C16_Witness ==
    /\ last.op = "zoom" /\ last.arg.anchored /\ last.arg.button = 4
    /\ last.arg.old = <<1600, 0>>
    /\ last.arg.new = <<1333, 0>>
    /\ pan_x = Whole(267)
    /\ CellAfterZoom = {<<1600, 0>>}

\* C17: after any zoom-in, zoom-out and viewport reset,
\* min_zoom <= zoom_level <= max_zoom (0.5 and 8); a zoom-in at max_zoom and
\* a zoom-out at min_zoom leave zoom_level as it is.
C17_ZoomWithinBounds ==
    /\ [](~Less(zoom_level, MinZoom) /\ ~Less(Whole(MaxZoom), zoom_level))
    /\ [][(last'.op = "zoom" /\ last'.arg.anchored) =>
             /\ (last'.arg.button = 4 /\ zoom_level = Whole(MaxZoom)) =>
                   zoom_level' = zoom_level
             /\ (last'.arg.button = 5 /\ zoom_level = MinZoom) =>
                   zoom_level' = zoom_level]_vars

\* a zoom-in at max_zoom: the cursor at (30, 20) was over cell (3, 2) before
\* the notch, as it is at zoom 8 only, and the zoom level is 8 after it
C17_Witness ==
    /\ last.op = "zoom" /\ last.arg.anchored /\ last.arg.button = 4
    /\ last.arg.pos = <<30, 20>>
    /\ last.arg.old = <<3, 2>>
    /\ zoom_level = Whole(MaxZoom)

\* the slider on whose row pos lies, 0 if none
SliderRow(pos) ==
    LET rows == {i \in 1 .. Len(SliderParams) :
                    /\ SliderRect(i).y <= pos[2]
                    /\ pos[2] < SliderRect(i).y + SliderRect(i).h}
    IN  IF rows = {} THEN 0 ELSE CHOOSE i \in rows : TRUE

\* min_val and max_val of slider i, in the units of NewValue
RangeEnds(i) ==
    IF SliderParams[i] = "spread_radius" THEN <<1, 10>> ELSE <<0, SliderWidth>>

\* C18: after any slider drags every tree parameter is within its declared
\* range, spread_chance in [0, 0.01], spontaneous_chance in [0, 0.0001] and
\* spread_radius an integer in [1, 10]; and a drag to a position beyond an
\* end of a slider sets the parameter to that end of the range.
C18_SliderDragClamps ==
    /\ [](\A i \in 1 .. Len(SliderParams) :
             /\ trees_config[SliderParams[i]] \in RangeEnds(i)[1] .. RangeEnds(i)[2]
             /\ sliders[SliderParams[i]] = trees_config[SliderParams[i]])
    /\ [][(last'.op = "drag" /\ SliderRow(Event.pos) # 0) =>
             LET i == SliderRow(Event.pos)
             IN  /\ Event.pos[1] < SliderRect(i).x =>
                       trees_config'[SliderParams[i]] = RangeEnds(i)[1]
                 /\ Event.pos[1] >= SliderRect(i).x + SliderRect(i).w =>
                       trees_config'[SliderParams[i]] = RangeEnds(i)[2]]_vars

\* C19: after any ticks, brush edits, randomize, clear and rule toggles the
\* grid has the height x width shape given at construction, which never
\* changes, and every cell holds Empty (0), Alive (1) or Tree (2).
C19_GridShapeAndStates ==
    /\ [](/\ DOMAIN grid = CellsOf(height, width)
          /\ \A c \in DOMAIN grid : grid[c] \in {Empty, Alive, Tree})
    /\ [][height' = height /\ width' = width]_vars

\* two ticks with the Tree rule switched on, after a brush stroke of Trees:
\* the grid holds Trees and Alive cells
C19_Witness ==
    /\ last.op = "frame" /\ frame_count = 2
    /\ rules.trees
    /\ last.trees.ran /\ last.gol.ran
    /\ \E c \in Cells : grid[c] = Tree
    /\ \E c \in Cells : grid[c] = Alive

\* C20: after Clear every cell is Empty, whatever the grid was, and a second
\* Clear leaves the grid as the first one left it.
C20_ClearIdempotent ==
    [][last'.op = "clear" =>
          /\ \A c \in Cells : grid'[c] = Empty
          /\ last.op = "clear" => grid' = grid]_vars

\* Clear has emptied a grid of Trees and Alive cells, and the next input is
\* Clear again
C20_Witness ==
    /\ last.op = "clear"
    /\ \E c \in Cells : last.pre[c] = Tree
    /\ \E c \in Cells : last.pre[c] = Alive
    /\ \A c \in Cells : grid[c] = Empty
    /\ events = ClearClick

\* C21: randomize_grid leaves every cell of the grid Empty or Alive, never
\* Tree, whatever the grid held before; with density 0 every cell is Empty
\* and with density 1 every cell is Alive.
C21_RandomizeOverwrites ==
    last.op = "randomize" =>
       /\ DOMAIN grid = Cells
       /\ \A c \in Cells : grid[c] \in {Empty, Alive}
       /\ last.arg = 0 => \A c \in Cells : grid[c] = Empty
       /\ last.arg = 100 => \A c \in Cells : grid[c] = Alive

\* randomize_grid with density 1 on a grid that held a Tree and an Empty
\* cell: every cell is Alive
C21_Witness ==
    /\ last.op = "randomize" /\ last.arg = 100
    /\ \E c \in Cells : last.pre[c] = Tree
    /\ \E c \in Cells : last.pre[c] = Empty
    /\ \A c \in Cells : grid[c] = Alive

\* C22: while the UI panel is hidden, a left click where a rule toggle,
\* Randomize, Clear or a slider of the panel would be drawn does not trigger
\* that control: handling the click leaves the rule flags, the tree
\* parameters and the grid as they were (the brush acts at the end of the
\* frame, in handle_mouse).
C22_HiddenControlsInert ==
    [][(/\ ~ui_visible
        /\ Handling("down") /\ Event.button = 1
        /\ \/ ButtonAt(Event.pos) \in {"toggle_game_of_life", "toggle_trees",
                                       "randomize", "clear"}
           \/ SliderAt(Event.pos) # 0)
       => /\ rules' = rules
          /\ trees_config' = trees_config
          /\ grid' = grid]_vars

\* C23: the end of the frame in which the 'X' button was clicked with the
\* panel visible leaves the panel hidden, whether the left button is still
\* held or not, and the panel then becomes visible only by a press on the
\* show button.
C23_HideLasts ==
    /\ [][(Handling("frame") /\ last.op = "toggle_ui" /\ ~ui_visible)
             => ~ui_visible']_vars
    /\ [][(~ui_visible /\ ui_visible' /\ last.op # "toggle_ui")
             => \/ last'.op = "toggle_ui"
                \/ /\ last'.op = "frame"
                   /\ 1 \in last'.arg.pressed
                   /\ CollidePoint(ShowButton, last'.arg.pos)]_vars

====
